---- MODULE Spec2Model ----
(***************************************************************************)
(* Model of the Zava product scripts:                                      *)
(*   zava_product_upload.py  (create index, embed, upload in batches)      *)
(*   render_table.py         (render search results as a table)            *)
(* The search service and the embedding API are external; they are         *)
(* modelled by the state they keep (index definitions, stored documents)   *)
(* and by the calls the scripts issue to them, any of which may raise.     *)
(***************************************************************************)
EXTENDS Integers, Sequences, FiniteSets, TLC

VARIABLES
    pc,            \* position of zava_product_upload.main
    error,         \* the exception propagating out of main ("none" if none)
    fileLen,       \* number of records in product_data_flat.json
    deployedDim,   \* length of the vectors the deployed embedding model returns
    priorIndex,    \* definition index_name had on the service when main started
    returned,      \* the functions of zava_product_upload that have returned
    indexes,       \* search service: index name -> index definition
    indexed,       \* search service: documents accepted, in arrival order
    products,      \* main's `products` list
    i,             \* loop variable of generate_embeddings / upload_products
    indexCalls,    \* number of create_or_update_index calls issued
    embedCalls,    \* inputs of the embeddings.create calls issued, in order
    uploadCalls,   \* `documents` of the upload_documents calls issued, in order
    out,           \* lines printed by zava_product_upload
    rpc,           \* position of render_product_results
    results,       \* render_product_results: the result documents
    show_reranker, \* render_product_results: the flag
    doc_idx,       \* render_product_results: documents rendered so far
    table,         \* render_product_results: the rich Table being built
    console        \* tables printed on the console

envVars == <<fileLen, deployedDim, priorIndex>>
uploadVars == <<pc, error, envVars, returned, indexes, indexed, products, i,
                indexCalls, embedCalls, uploadCalls, out>>
renderVars == <<rpc, results, show_reranker, doc_idx, table, console>>
vars == <<uploadVars, renderVars>>

(***************************************************************************)
(* Bounds of the model.                                                    *)
(***************************************************************************)
\* full batches in the longest data file (it has one more record than that)
MaxBatches == 2
\* length of the short data file (less than one batch)
SmallLen == 2
\* longest result list handed to render_product_results
MaxResults == 2

(***************************************************************************)
(* Program constants.                                                      *)
(***************************************************************************)
EMBEDDING_DIMENSIONS == 3072
batch_size == 1000
progress_every == 100
description_limit == 80
\* vector lengths of the embedding deployments the environment may name:
\* text-embedding-3-large and a deployment returning vectors half as long
DeployedDimensions == {EMBEDDING_DIMENSIONS, EMBEDDING_DIMENSIONS \div 2}

index_name == "zava-products-index"
other_index == "other-index"
IndexNames == {index_name, other_index}
NoIndex == [name |-> "<none>"]

(***************************************************************************)
(* Small helpers on sequences and strings.                                 *)
(***************************************************************************)
RECURSIVE Join(_, _)
\* sep.join(strs)
Join(strs, sep) ==
    IF Len(strs) = 0 THEN ""
    ELSE IF Len(strs) = 1 THEN strs[1]
    ELSE strs[1] \o sep \o Join(Tail(strs), sep)

RECURSIVE Concat(_)
\* concatenation of a sequence of sequences
Concat(ss) == IF ss = <<>> THEN <<>> ELSE Head(ss) \o Concat(Tail(ss))

RECURSIVE Repeat(_, _)
Repeat(s, n) == IF n = 0 THEN "" ELSE s \o Repeat(s, n - 1)

\* Python's xs[lo : hi] with 0 <= lo (0-based, hi exclusive, clipped to the list)
Slice(xs, lo, hi) ==
    SubSeq(xs, lo + 1, IF hi < Len(xs) THEN hi ELSE Len(xs))

\* d[key] = value on a dict
SetItem(d, key, value) == (key :> value) @@ d

\* the dict without one key
WithoutKey(d, key) == [k \in DOMAIN d \ {key} |-> d[k]]

(***************************************************************************)
(* The data file: fileLen product records.                                 *)
(***************************************************************************)
Names == <<"Garden Hose", "Drip Kit", "Hammer">>
Descriptions == <<"Flexible 25 foot hose", "Waters plants without waste">>
CategoryLists == << <<"Garden", "Watering">>, <<>>, <<"Tools">> >>

Product(k) ==
    [sku |-> "SKU" \o ToString(k),
     name |-> Names[(k % 3) + 1],
     description |-> Descriptions[(k % 2) + 1],
     price |-> 999 + k,
     stock_level |-> k % 7,
     categories |-> CategoryLists[(k % 3) + 1]]

DataFile(n) == [k \in 1..n |-> Product(k)]

\* an empty file, less than a batch, exactly a batch, a batch and a few
\* records, several batches and one record
FileLengths ==
    {0, SmallLen, batch_size, batch_size + SmallLen, MaxBatches * batch_size + 1}

(***************************************************************************)
(* create_product_index_schema                                             *)
(***************************************************************************)
create_product_index_schema(name) ==
    [name |-> name,
     fields |-> <<
        [name |-> "sku", type |-> "Edm.String", key |-> TRUE,
         filterable |-> TRUE, sortable |-> TRUE],
        [name |-> "name", type |-> "Edm.String", searchable |-> TRUE,
         sortable |-> TRUE],
        [name |-> "description", type |-> "Edm.String", searchable |-> TRUE],
        [name |-> "price", type |-> "Edm.Double", filterable |-> TRUE,
         sortable |-> TRUE, facetable |-> TRUE],
        [name |-> "stock_level", type |-> "Edm.Int32", filterable |-> TRUE,
         sortable |-> TRUE, facetable |-> TRUE],
        [name |-> "categories", type |-> "Collection(Edm.String)",
         searchable |-> TRUE, filterable |-> TRUE, facetable |-> TRUE],
        [name |-> "embedding", type |-> "Collection(Edm.Single)",
         searchable |-> TRUE,
         vector_search_dimensions |-> EMBEDDING_DIMENSIONS,
         vector_search_profile_name |-> "embedding-profile"] >>,
     vector_search |->
        [profiles |-> << [name |-> "embedding-profile",
                          algorithm_configuration_name |-> "hnsw-config"] >>,
         algorithms |-> << [name |-> "hnsw-config", metric |-> "cosine"] >>],
     semantic_search |->
        [default_configuration_name |-> "products-semantic-config",
         configurations |-> <<
            [name |-> "products-semantic-config",
             title_field |-> "name",
             content_fields |-> <<"description">>,
             keywords_fields |-> <<"categories">>] >>]]

\* an index definition left by an earlier version of the script: keyword only
OldIndex(name) ==
    [name |-> name,
     fields |-> SubSeq(create_product_index_schema(name).fields, 1, 6),
     vector_search |-> [profiles |-> <<>>, algorithms |-> <<>>],
     semantic_search |-> [default_configuration_name |-> "", configurations |-> <<>>]]

(***************************************************************************)
(* The external services.                                                  *)
(***************************************************************************)
\* faulty variant: creates a missing index, leaves an existing one as it is
create_index_if_missing(ixs, ix) ==
    IF ixs[ix.name] = NoIndex THEN [ixs EXCEPT ![ix.name] = ix] ELSE ixs

\* index_client.create_or_update_index(ix): the service's definitions after it
create_or_update_index(ixs, ix) == [ixs EXCEPT ![ix.name] = ix]

\* openai_client.embeddings.create(model=..., input=text).data[0].embedding:
\* a vector of the deployed model's length, computed from the input text
embeddings_create(text) == [dim |-> deployedDim, input |-> text]

(***************************************************************************)
(* generate_embeddings and upload_products: the pure parts.                *)
(***************************************************************************)
\* faulty variant: the categories are left out of the text
text_without_categories(product) ==
    product.name \o " " \o product.description

\* f"{product['name']} {product['description']} {' '.join(product['categories'])}"
text_to_embed(product) ==
    product.name \o " " \o product.description \o " "
        \o Join(product.categories, " ")

\* faulty variant: the vector is forced to the index's dimension
with_embedding_resized(product, vector) ==
    SetItem(product, "embedding", [vector EXCEPT !.dim = EMBEDDING_DIMENSIONS])

\* faulty variant: the record is rebuilt from the embedded fields only
with_embedding_only(product, vector) ==
    [sku |-> product.sku, name |-> product.name,
     description |-> product.description, categories |-> product.categories,
     embedding |-> vector]

\* product["embedding"] = response.data[0].embedding
with_embedding(product, vector) == SetItem(product, "embedding", vector)

\* faulty variant: the slice starts one record late
batch_off_by_one(ps, start) == Slice(ps, start + 1, start + batch_size)

\* products[i : i + batch_size]
batch_at(ps, start) == Slice(ps, start, start + batch_size)

\* faulty variant: the range is walked without its step
next_start_unit_step(start) == start + 1

\* range(0, len(products), batch_size): the start of the batch after `start`
next_start(start) == start + batch_size

\* print(line)
Printed(lines, line) == Append(lines, line)

(***************************************************************************)
(* main: the order of its steps, and what an exception does.               *)
(***************************************************************************)
\* faulty variant: upload before the embeddings are generated
MainStepsUploadFirst ==
    <<"create_index", "load", "upload_products", "generate_embeddings", "finish">>

MainSteps ==
    <<"create_index", "load", "generate_embeddings", "upload_products", "finish">>

\* the step main runs when `step` has returned
StepAfter(step) ==
    LET k == CHOOSE j \in 1..Len(MainSteps) : MainSteps[j] = step
    IN  IF k < Len(MainSteps) THEN MainSteps[k + 1] ELSE "done"

\* faulty variant: the exception is swallowed and the call is tried again
RaiseAndRetry(what) == pc' = pc /\ error' = what

\* an API call raises: nothing catches it, the script terminates
Raise(what) == pc' = "failed" /\ error' = what

(***************************************************************************)
(* zava_product_upload.main                                                *)
(***************************************************************************)
RenderIdle ==
    /\ rpc = "idle"
    /\ results = <<>>
    /\ show_reranker = FALSE
    /\ doc_idx = 0
    /\ table = [columns |-> <<>>, rows |-> <<>>]
    /\ console = <<>>

UploadStart ==
    /\ pc = MainSteps[1]
    /\ error = "none"
    /\ indexed = <<>>
    /\ products = <<>>
    /\ i = 0
    /\ indexCalls = 0
    /\ embedCalls = <<>>
    /\ uploadCalls = <<>>
    /\ out = <<>>
    /\ returned = {}

\* What index_name is on the service when main starts: absent, defined by an
\* earlier version of the script, or defined by an earlier run of this one.
\* The runs over the long files start without the index.
PriorIndexes(n) ==
    IF n <= SmallLen
    THEN {NoIndex, OldIndex(index_name), create_product_index_schema(index_name)}
    ELSE {NoIndex}

Init ==
    /\ UploadStart
    /\ fileLen \in FileLengths
    /\ deployedDim \in DeployedDimensions
    /\ \E before \in PriorIndexes(fileLen) :
          /\ priorIndex = before
          /\ indexes = [n \in IndexNames |->
                           IF n = index_name THEN before ELSE OldIndex(n)]
    /\ RenderIdle

\* create_index: the schema is built and sent, the service stores it
CreateIndex ==
    /\ pc = "create_index"
    /\ indexCalls' = indexCalls + 1
    /\ indexes' = create_or_update_index(indexes,
                      create_product_index_schema(index_name))
    /\ out' = Printed(Printed(out,
                  "Creating or updating index '" \o index_name \o "'..."),
                  "Index '" \o index_name \o "' created/updated successfully.")
    /\ returned' = returned \cup {"create_index"}
    /\ pc' = StepAfter("create_index")
    /\ UNCHANGED <<error, envVars, indexed, products, i,
                   embedCalls, uploadCalls, renderVars>>

\* create_index: create_or_update_index raises
CreateIndexRaises ==
    /\ pc = "create_index"
    /\ indexCalls' = indexCalls + 1
    /\ out' = Printed(out, "Creating or updating index '" \o index_name \o "'...")
    /\ Raise("create_or_update_index")
    /\ UNCHANGED <<envVars, returned, indexes, indexed, products, i,
                   embedCalls, uploadCalls, renderVars>>

\* main: json.load of the data file
LoadProducts ==
    /\ pc = "load"
    /\ products' = DataFile(fileLen)
    /\ out' = Printed(Printed(out,
                  "Loading product data from product_data_flat.json..."),
                  "Loaded " \o ToString(fileLen) \o " products.")
    /\ pc' = StepAfter("load")
    /\ UNCHANGED <<error, envVars, returned, indexes, indexed, i,
                   indexCalls, embedCalls, uploadCalls, renderVars>>

\* generate_embeddings: entry
GenerateEmbeddingsBegin ==
    /\ pc = "generate_embeddings"
    /\ out' = Printed(out, "Generating embeddings for products...")
    /\ i' = 0
    /\ pc' = "generate_embeddings.loop"
    /\ UNCHANGED <<error, envVars, returned, indexes, indexed, products,
                   indexCalls, embedCalls, uploadCalls, renderVars>>

\* generate_embeddings: one iteration of the loop, the request answered
EmbedOne ==
    /\ pc = "generate_embeddings.loop"
    /\ i < Len(products)
    /\ LET product == products[i + 1]
           text == text_to_embed(product)
       IN  /\ embedCalls' = Append(embedCalls, text)
           /\ products' = [products EXCEPT
                  ![i + 1] = with_embedding(product, embeddings_create(text))]
    /\ out' = IF (i + 1) % progress_every = 0
              THEN Printed(out, "  Generated embeddings for " \o ToString(i + 1)
                                \o "/" \o ToString(Len(products)) \o " products")
              ELSE out
    /\ i' = i + 1
    /\ UNCHANGED <<pc, error, envVars, returned, indexes, indexed,
                   indexCalls, uploadCalls, renderVars>>

\* generate_embeddings: one iteration of the loop, the request raises
EmbedRaises ==
    /\ pc = "generate_embeddings.loop"
    /\ i < Len(products)
    /\ embedCalls' = Append(embedCalls, text_to_embed(products[i + 1]))
    /\ Raise("embeddings.create")
    /\ UNCHANGED <<envVars, returned, indexes, indexed, products, i,
                   indexCalls, uploadCalls, out, renderVars>>

\* generate_embeddings: the loop is exhausted, the function returns
GenerateEmbeddingsEnd ==
    /\ pc = "generate_embeddings.loop"
    /\ i >= Len(products)
    /\ out' = Printed(out, "Generated embeddings for all "
                           \o ToString(Len(products)) \o " products.")
    /\ returned' = returned \cup {"generate_embeddings"}
    /\ pc' = StepAfter("generate_embeddings")
    /\ UNCHANGED <<error, envVars, indexes, indexed, products, i,
                   indexCalls, embedCalls, uploadCalls, renderVars>>

\* upload_products: entry; range(0, len(products), batch_size) starts at 0
UploadProductsBegin ==
    /\ pc = "upload_products"
    /\ out' = Printed(out, "Uploading " \o ToString(Len(products)) \o " products...")
    /\ i' = 0
    /\ pc' = "upload_products.loop"
    /\ UNCHANGED <<error, envVars, returned, indexes, indexed, products,
                   indexCalls, embedCalls, uploadCalls, renderVars>>

\* upload_products: one iteration of the loop, the batch accepted
UploadBatch ==
    /\ pc = "upload_products.loop"
    /\ i < Len(products)
    /\ LET batch == batch_at(products, i)
       IN  /\ uploadCalls' = Append(uploadCalls, batch)
           /\ indexed' = indexed \o batch
           /\ out' = Printed(out, "Uploaded batch " \o ToString((i \div batch_size) + 1)
                                  \o " (" \o ToString(Len(batch)) \o " products)")
    /\ i' = next_start(i)
    /\ UNCHANGED <<pc, error, envVars, returned, indexes, products,
                   indexCalls, embedCalls, renderVars>>

\* upload_products: one iteration of the loop, upload_documents raises
UploadRaises ==
    /\ pc = "upload_products.loop"
    /\ i < Len(products)
    /\ uploadCalls' = Append(uploadCalls, batch_at(products, i))
    /\ Raise("upload_documents")
    /\ UNCHANGED <<envVars, returned, indexes, indexed, products, i,
                   indexCalls, embedCalls, out, renderVars>>

\* upload_products: the range is exhausted, the function returns
UploadProductsEnd ==
    /\ pc = "upload_products.loop"
    /\ i >= Len(products)
    /\ out' = Printed(out, "Successfully uploaded "
                           \o ToString(Len(products)) \o " products.")
    /\ returned' = returned \cup {"upload_products"}
    /\ pc' = StepAfter("upload_products")
    /\ UNCHANGED <<error, envVars, indexes, indexed, products, i,
                   indexCalls, embedCalls, uploadCalls, renderVars>>

SuccessLine == "All operations completed successfully!"

\* main: the closing messages
Finish ==
    /\ pc = "finish"
    /\ out' = Printed(Printed(Printed(out, SuccessLine),
                  "  - Index: " \o index_name),
                  "  - Products uploaded: " \o ToString(Len(products)))
    /\ pc' = StepAfter("finish")
    /\ UNCHANGED <<error, envVars, returned, indexes, indexed, products, i,
                   indexCalls, embedCalls, uploadCalls, renderVars>>

Next ==
    \/ CreateIndex
    \/ CreateIndexRaises
    \/ LoadProducts
    \/ GenerateEmbeddingsBegin
    \/ EmbedOne
    \/ EmbedRaises
    \/ GenerateEmbeddingsEnd
    \/ UploadProductsBegin
    \/ UploadBatch
    \/ UploadRaises
    \/ UploadProductsEnd
    \/ Finish

Spec == Init /\ [][Next]_vars

(***************************************************************************)
(* render_table.render_product_results                                     *)
(***************************************************************************)
\* Scores are carried in thousandths and prices in cents (integers in units
\* of the last digit printed), so f"{x:.3f}" and f"{x:.2f}" print the integer
\* part, a point, and the fraction padded with zeros to `digits` digits.
RECURSIVE ZeroPad(_, _)
ZeroPad(s, width) == IF Len(s) >= width THEN s ELSE ZeroPad("0" \o s, width)

FormatFixed(units, digits) ==
    ToString(units \div (10 ^ digits)) \o "."
        \o ZeroPad(ToString(units % (10 ^ digits)), digits)

\* faulty variant: a description of exactly 80 characters is cut as well
description_cell_from_limit(description) ==
    IF Len(description) >= description_limit
    THEN SubSeq(description, 1, description_limit) \o "..."
    ELSE description

\* doc["description"][:80] + "..." if len(doc["description"]) > 80
\*     else doc["description"]
description_cell(description) ==
    IF Len(description) > description_limit
    THEN SubSeq(description, 1, description_limit) \o "..."
    ELSE description

\* faulty variant: the reranker score is added to every row
row_always_reranker(doc, reranker) ==
    <<FormatFixed(doc["@search.score"], 3),
      FormatFixed(doc["@search.reranker_score"], 3),
      doc.name, description_cell(doc.description),
      Join(doc.categories, ", "), "$" \o FormatFixed(doc.price, 2), doc.sku>>

\* the cells of one row (the body of the for loop)
row_of(doc, reranker) ==
    <<FormatFixed(doc["@search.score"], 3)>>
    \o (IF reranker THEN <<FormatFixed(doc["@search.reranker_score"], 3)>>
        ELSE <<>>)
    \o <<doc.name, description_cell(doc.description),
         Join(doc.categories, ", "), "$" \o FormatFixed(doc.price, 2), doc.sku>>

\* the headers added by the add_column calls
columns_of(reranker) ==
    <<"Score">>
    \o (IF reranker THEN <<"Reranker">> ELSE <<>>)
    \o <<"Name", "Description", "Categories", "Price", "SKU">>

RenderTitle == "Keyword search results for 'water plants efficiently without waste'"

\* result documents: descriptions just below, at, just above and far above
\* the limit, and an empty one
Filler == Repeat("0123456789", (2 * description_limit) \div 10)
DescriptionLengths ==
    {0, description_limit - 1, description_limit, description_limit + 1,
     2 * description_limit}

ResultDoc(n) ==
    ("@search.score" :> (1000 + n)) @@ ("@search.reranker_score" :> (2 * n + 7)) @@
    [name |-> Names[(n % 3) + 1],
     description |-> SubSeq(Filler, 1, n),
     categories |-> CategoryLists[(n % 3) + 1],
     price |-> 999 + n,
     sku |-> "SKU" \o ToString(n)]

ResultDocs == {ResultDoc(n) : n \in DescriptionLengths}

ResultLists == UNION {[1..n -> ResultDocs] : n \in 0..MaxResults}

InitRender ==
    /\ pc = "idle"
    /\ error = "none"
    /\ fileLen = 0
    /\ deployedDim = EMBEDDING_DIMENSIONS
    /\ priorIndex = NoIndex
    /\ returned = {}
    /\ indexes = [n \in IndexNames |-> create_product_index_schema(n)]
    /\ indexed = <<>>
    /\ products = <<>>
    /\ i = 0
    /\ indexCalls = 0
    /\ embedCalls = <<>>
    /\ uploadCalls = <<>>
    /\ out = <<>>
    /\ rpc = "start"
    /\ results \in ResultLists
    /\ show_reranker \in BOOLEAN
    /\ doc_idx = 0
    /\ table = [columns |-> <<>>, rows |-> <<>>]
    /\ console = <<>>

\* the Table is created and its columns are added
RenderColumns ==
    /\ rpc = "start"
    /\ table' = [title |-> RenderTitle, columns |-> columns_of(show_reranker),
                 rows |-> <<>>]
    /\ doc_idx' = 0
    /\ rpc' = "rows"
    /\ UNCHANGED <<uploadVars, results, show_reranker, console>>

\* one iteration of `for doc in list(results)`
RenderRow ==
    /\ rpc = "rows"
    /\ doc_idx < Len(results)
    /\ table' = [table EXCEPT
                    !.rows = Append(@, row_of(results[doc_idx + 1], show_reranker))]
    /\ doc_idx' = doc_idx + 1
    /\ UNCHANGED <<uploadVars, rpc, results, show_reranker, console>>

\* console.print(table)
RenderPrinted ==
    /\ rpc = "rows"
    /\ doc_idx >= Len(results)
    /\ console' = Append(console, table)
    /\ rpc' = "done"
    /\ UNCHANGED <<uploadVars, results, show_reranker, doc_idx, table>>

NextRender ==
    \/ RenderColumns
    \/ RenderRow
    \/ RenderPrinted

SpecRender == InitRender /\ [][NextRender]_vars

(***************************************************************************)
(* Properties of zava_product_upload.                                      *)
(***************************************************************************)
Returned(fn) == fn \in returned

\* every record of every batch passed to upload_documents
AllUploaded(P(_)) ==
    \A b \in 1..Len(uploadCalls) :
        \A r \in 1..Len(uploadCalls[b]) : P(uploadCalls[b][r])

\* the text the record read from position k of the data file is embedded as
FileText(k) ==
    LET rec == DataFile(fileLen)[k]
    IN  rec.name \o " " \o rec.description \o " " \o Join(rec.categories, " ")

\* C1: upload_products sends every record exactly once and in list order: the
\* batches passed to upload_documents, concatenated in call order, are the
\* records handled so far, and the whole products list once it has returned.
C1_UploadsEachRecordOnceInOrder ==
    /\ (pc = "upload_products.loop" /\ error = "none") =>
          Concat(uploadCalls) = Slice(products, 0, i)
    /\ Returned("upload_products") => Concat(uploadCalls) = products

C1_Witness ==
    /\ Returned("upload_products")
    /\ Len(uploadCalls) > 1
    /\ Len(products) > batch_size

\* C2: upload_products makes ceil(n / 1000) upload_documents calls for n
\* records; every batch is non-empty and has at most 1000 records, every batch
\* but the last has exactly 1000, and for n = 0 no call is made.
C2_FixedSizeBatches ==
    Returned("upload_products") =>
        LET n == Len(products)
            calls == Len(uploadCalls)
        IN  /\ calls = (n + batch_size - 1) \div batch_size
            /\ \A b \in 1..calls :
                  /\ Len(uploadCalls[b]) >= 1
                  /\ Len(uploadCalls[b]) <= batch_size
                  /\ b < calls => Len(uploadCalls[b]) = batch_size
            /\ n = 0 => uploadCalls = <<>>

C2_Witness ==
    /\ Returned("upload_products")
    /\ Len(products) = batch_size
    /\ Len(uploadCalls) = 1

\* C3: main runs create/update index, load, generate embeddings, upload in
\* that order: no embedding request before create_index has returned, no
\* upload_documents call before generate_embeddings has returned, and every
\* record passed to upload_documents has its embedding field set.
C3_StepsInOrder ==
    /\ (products # <<>> \/ embedCalls # <<>>) => Returned("create_index")
    /\ uploadCalls # <<>> =>
          /\ Returned("generate_embeddings")
          /\ Len(embedCalls) = Len(products)
    /\ AllUploaded(LAMBDA rec : "embedding" \in DOMAIN rec)

C3_Witness ==
    /\ uploadCalls # <<>>
    /\ Len(embedCalls) > 1
    /\ indexCalls = 1

\* what holds once an API call has raised
C4_Failed ==
    error # "none" =>
        /\ pc = "failed"
        /\ \A k \in 1..Len(out) : out[k] # SuccessLine
        /\ error = "create_or_update_index" =>
              /\ indexCalls = 1
              /\ embedCalls = <<>>
              /\ uploadCalls = <<>>
        /\ error = "embeddings.create" =>
              /\ Len(embedCalls) = i + 1
              /\ uploadCalls = <<>>
              /\ indexed = <<>>
        /\ error = "upload_documents" =>
              /\ Len(uploadCalls) = (i \div batch_size) + 1
              /\ indexed = Concat(SubSeq(uploadCalls, 1, Len(uploadCalls) - 1))
              /\ indexed = Slice(products, 0, i)

\* C4: an API error terminates the script: the failed call is the last call
\* issued, nothing is issued or printed after it, an embedding failure means
\* nothing is uploaded, batches accepted before an upload failure stay on the
\* service, and the success message is never printed.
C4_ErrorTerminates ==
    /\ []C4_Failed
    /\ [][error # "none" => UNCHANGED vars]_vars

C4_Witness ==
    /\ error = "upload_documents"
    /\ Len(uploadCalls) = 2
    /\ indexed # <<>>

\* C5: generate_embeddings issues one embedding request per record, in list
\* order, for the text "<name> <description> <categories joined by spaces>",
\* and stores the response to the request on that same record.
C5_OneRequestPerRecord ==
    /\ (pc = "generate_embeddings.loop" /\ error = "none") => Len(embedCalls) = i
    /\ Returned("generate_embeddings") =>
          /\ Len(embedCalls) = Len(products)
          /\ \A k \in 1..Len(products) :
                /\ embedCalls[k] = FileText(k)
                /\ "embedding" \in DOMAIN products[k]
                /\ products[k].embedding = embeddings_create(embedCalls[k])

C5_Witness ==
    /\ Returned("generate_embeddings")
    /\ Len(embedCalls) > 1
    /\ embedCalls[1] # embedCalls[2]

\* C6 as stated: every record passed to upload_documents carries an embedding
\* of length EMBEDDING_DIMENSIONS, whatever vector the embedding API returned.
C6_AlwaysIndexDimension ==
    AllUploaded(LAMBDA rec : rec.embedding.dim = EMBEDDING_DIMENSIONS)

\* C6 amended: every record passed to upload_documents carries the vector the
\* embedding API returned for it, unchanged; its length is that of the
\* deployed model's vectors, and is EMBEDDING_DIMENSIONS exactly when the API
\* returned a vector of that length.
C6_StoresReturnedVector ==
    AllUploaded(LAMBDA rec :
        /\ rec.embedding = embeddings_create(text_to_embed(rec))
        /\ rec.embedding.dim = deployedDim
        /\ (rec.embedding.dim = EMBEDDING_DIMENSIONS)
              <=> (deployedDim = EMBEDDING_DIMENSIONS))

C6_Witness ==
    /\ uploadCalls # <<>>
    /\ deployedDim # EMBEDDING_DIMENSIONS

\* the service once create_index has returned
C7_AfterReturn ==
    Returned("create_index") =>
        LET schema == create_product_index_schema(index_name)
        IN  /\ indexes[index_name] # NoIndex
            /\ indexes[index_name] = schema
            /\ indexes[other_index] = OldIndex(other_index)
            /\ create_or_update_index(indexes, schema) = indexes

\* create_index returning on a service that already holds the schema
C7_SecondCall ==
    (/\ pc = "create_index"
     /\ Returned("create_index")'
     /\ indexes[index_name] = create_product_index_schema(index_name))
        => indexes' = indexes

C8_FrameAtReturn ==
    Returned("generate_embeddings") =>
        /\ Len(products) = fileLen
        /\ [k \in 1..Len(products) |-> WithoutKey(products[k], "embedding")]
              = DataFile(fileLen)

\* one iteration of the embedding loop
C8_EmbedStep ==
    (pc = "generate_embeddings.loop" /\ i' = i + 1) =>
        /\ Len(products') = Len(products)
        /\ [products' EXCEPT ![i'] = products[i']] = products
        /\ WithoutKey(products'[i'], "embedding")
              = WithoutKey(products[i'], "embedding")

\* any step of upload_products
C8_UploadStep ==
    (pc \in {"upload_products", "upload_products.loop"}) => products' = products

\* C8: generate_embeddings changes the products list only by setting the
\* embedding field of the record it is at: the list keeps its length and
\* order and every other field of every record its value; upload_products
\* changes neither the list nor any record.
C8_OnlyEmbeddingAdded ==
    /\ []C8_FrameAtReturn
    /\ [][C8_EmbedStep]_vars
    /\ [][C8_UploadStep]_vars

C8_Witness ==
    /\ Returned("upload_products")
    /\ Len(products) > 0
    /\ \A k \in 1..Len(products) : "embedding" \in DOMAIN products[k]

(***************************************************************************)
(* Properties of render_product_results.                                   *)
(***************************************************************************)
\* C9: the table has one row per result document, in result order, and every
\* row has as many cells as the table has columns: 6 (Score, Name,
\* Description, Categories, Price, SKU) without the reranker column, 7 with
\* Reranker directly after Score.
C9_RowsMatchColumns ==
    rpc \in {"rows", "done"} =>
        /\ table.columns =
              IF show_reranker
              THEN <<"Score", "Reranker", "Name", "Description", "Categories",
                     "Price", "SKU">>
              ELSE <<"Score", "Name", "Description", "Categories", "Price", "SKU">>
        /\ Len(table.columns) = IF show_reranker THEN 7 ELSE 6
        /\ Len(table.rows) = doc_idx
        /\ \A r \in 1..Len(table.rows) :
              /\ Len(table.rows[r]) = Len(table.columns)
              /\ table.rows[r][Len(table.columns)] = results[r].sku
              /\ table.rows[r][Len(table.columns) - 4] = results[r].name
        /\ rpc = "done" =>
              /\ Len(table.rows) = Len(results)
              /\ console = <<table>>

C9_Witness ==
    /\ rpc = "done"
    /\ show_reranker
    /\ Len(table.rows) = 2
    /\ results[1] # results[2]

\* C10: the Description cell is the description unchanged when it has at most
\* 80 characters, otherwise its first 80 characters followed by "..."; it is
\* never longer than 83 characters.
C10_DescriptionCell ==
    rpc \in {"rows", "done"} =>
        \A r \in 1..Len(table.rows) :
            LET description == results[r].description
                cell == table.rows[r][IF show_reranker THEN 4 ELSE 3]
            IN  /\ Len(description) <= 80 => cell = description
                /\ Len(description) > 80 =>
                      cell = SubSeq(description, 1, 80) \o "..."
                /\ Len(cell) <= 83

C10_Witness ==
    /\ rpc = "done"
    /\ \E r \in 1..Len(table.rows) : Len(results[r].description) = 80
    /\ \E r \in 1..Len(table.rows) : Len(results[r].description) > 80

====
